---------------------------- MODULE Spec2Model ----------------------------
(***************************************************************************)
(* The camera-to-inference loop of detect.py: run() acquires a frame,      *)
(* converts it, appends it to img_list, scores it against the previous     *)
(* frame with get_mse, and, when the score is not 0, runs the detector,    *)
(* refreshes the fps estimate and prints the result.                       *)
(*                                                                         *)
(* Spec     is run() from the state after line 58 (img_list = []).         *)
(* CycleSpec is run() from line 77 of a cycle in which line 74 has         *)
(*          assigned a score: the score, the counter, the clock and the    *)
(*          fps state are drawn from bounded sets, since run() itself      *)
(*          never gets a score from get_mse.                               *)
(* MseSpec  applies lines 73-75 (the call get_mse(img_list[0],             *)
(*          img_list[1]) and the pop) to every pair of arrays of the       *)
(*          bounded frame set held in img_list: 2-D arrays, which the      *)
(*          unpacking of line 145 expects, and the 3-D arrays line 72      *)
(*          appends.                                                       *)
(***************************************************************************)
EXTENDS Integers, Sequences, FiniteSets, TLC

VARIABLES
  pc,           \* the statement run() executes next, or "raised"
  shape,        \* <<lowresSize[1], stride>>: the geometry of a captured frame
  now,          \* the value time.time() returns
  counter,      \* line 28, 64
  fps,          \* line 28, 87
  start_time,   \* line 29, 88
  image,        \* line 62
  rgb_image,    \* line 67
  img_list,     \* line 58, 72, 75
  mse,          \* line 74; a local of run, unbound until line 74 assigns it
  error,        \* the exception that ended run(), "none" while it runs
  observed,     \* trace: the frames appended to img_list so far, in order
  decisions,    \* trace: the outcome of the test of line 77, one per cycle
  detected,     \* trace: the arguments of detector.detect, in call order
  sink          \* trace: the (detection_result, fps) pairs utils.print_data got

vars == <<pc, shape, now, counter, fps, start_time, image, rgb_image,
          img_list, mse, error, observed, decisions, detected, sink>>

-----------------------------------------------------------------------------
(* Bounds of the model *)

\* lowresSize[1] (240 in line 34) and the stride of line 38, scaled down
MaxH == 1
MaxW == 3
\* the largest value of the clock
MaxTime == 2
\* the largest number of frames the camera delivers: one more than the
\* averaging window of line 47, so that line 85 is true in some cycle
MaxCycles == 11

\* 8-bit intensities: equal, 16 apart (16^2 = 2^8) and 255 apart
PixelValues == {0, 16, 255}

\* line 47
fps_avg_frame_count == 10

-----------------------------------------------------------------------------
(* Values *)

\* a local name that has not been assigned
Unbound == [tag |-> "unbound"]

\* line 87 with the division inverted
FloatInverted(n, d) == [tag |-> "float", num |-> d, den |-> n]

\* a Python float, kept exact as num/den
Float(n, d) == [tag |-> "float", num |-> n, den |-> d]

\* lines 1-11, 14, 104, 144: the names bound at module level
ModuleGlobals ==
  {"argparse", "sys", "time", "cv2", "core", "processor", "vision", "utils",
   "Picamera2", "run", "main", "get_mse"}

\* an ndarray of dtype uint8: its shape and its elements in row-major order
Size(shp) == IF Len(shp) = 2 THEN shp[1] * shp[2] ELSE shp[1] * shp[2] * shp[3]

Array(shp) == {[shape |-> shp, px |-> p] : p \in [1..Size(shp) -> PixelValues]}

Geometries == {<<h, w>> : h \in 1..MaxH, w \in 2..MaxW}

\* line 62: the luminance plane of the buffer, reshaped to (lowresSize[1], stride)
GrayFrames(shp) == Array(shp)

\* line 67: cv2.cvtColor(image, cv2.COLOR_GRAY2RGB) copies the intensity of
\* each pixel to its three channels; the result has shape (h, w, 3)
cvtColor(img) ==
  [shape |-> <<img.shape[1], img.shape[2], 3>>,
   px |-> [i \in 1..(3 * Size(img.shape)) |-> img.px[((i - 1) \div 3) + 1]]]

\* line 70 with the tensor created from image, the unconverted frame
TensorImageOfGray(arr) ==
  [buffer |-> [shape |-> <<arr.shape[1], arr.shape[2]>>,
               px |-> [i \in 1..(arr.shape[1] * arr.shape[2]) |-> arr.px[3 * i]]]]

\* line 70: vision.TensorImage.create_from_array wraps the array
TensorImage(arr) == [buffer |-> arr]

-----------------------------------------------------------------------------
(* get_mse, lines 144-149 *)

Raise(exc) == [exc |-> exc, val |-> Unbound]
Return(v) == [exc |-> "none", val |-> v]

\* line 146: cv2.subtract on uint8 saturates, a - b < 0 gives 0
cv2_subtract(a, b) ==
  [shape |-> a.shape,
   px |-> [i \in 1..Size(a.shape) |->
             IF a.px[i] - b.px[i] < 0 THEN 0 ELSE a.px[i] - b.px[i]]]

\* line 147: diff**2 keeps dtype uint8, the square is taken modulo 2^8
Square(d) ==
  [shape |-> d.shape,
   px |-> [i \in 1..Size(d.shape) |-> (d.px[i] * d.px[i]) % 256]]

RECURSIVE SumTo(_, _)
SumTo(p, n) == IF n = 0 THEN 0 ELSE p[n] + SumTo(p, n - 1)

\* line 147: np.sum adds the uint8 elements in a 64-bit accumulator, which
\* h*w values below 2^8 cannot wrap
np_sum(d) == SumTo(d.px, Size(d.shape))

get_mse(img1, img2) ==
  IF Len(img1.shape) # 2
    THEN Raise("ValueError")            \* line 145: h, w = img1.shape
  ELSE IF img2.shape # img1.shape
    THEN Raise("cv2.error")             \* line 146: sizes do not match
  ELSE IF "np" \notin ModuleGlobals
    THEN Raise("NameError")             \* line 147: np is not imported
  ELSE LET h == img1.shape[1]
           w == img1.shape[2]
           diff == cv2_subtract(img1, img2)
           err == np_sum(Square(diff))
       IN Return(Float(err, h * w))     \* line 148-149

-----------------------------------------------------------------------------
(* run, lines 14-100 *)

\* line 72 with the frame appended twice
ListAppendTwice(l, x) == Append(Append(l, x), x)

\* line 72
ListAppend(l, x) == Append(l, x)

\* line 28-29, 58
Init ==
  /\ pc = "capture"
  /\ shape \in Geometries
  /\ now \in 0..MaxTime
  /\ start_time = now
  /\ counter = 0
  /\ fps = Float(0, 1)
  /\ image = Unbound
  /\ rgb_image = Unbound
  /\ img_list = <<>>
  /\ mse = Unbound
  /\ error = "none"
  /\ observed = <<>>
  /\ decisions = <<>>
  /\ detected = <<>>
  /\ sink = <<>>

\* line 61-64: the blocking capture returns a frame; counter += 1
Acquire ==
  /\ pc = "capture"
  /\ counter < MaxCycles
  /\ \E f \in GrayFrames(shape), t \in now..MaxTime :
       /\ image' = f
       /\ now' = t
  /\ counter' = counter + 1
  /\ pc' = "convert"
  /\ UNCHANGED <<shape, fps, start_time, rgb_image, img_list, mse, error,
                 observed, decisions, detected, sink>>

\* line 61 with the exception swallowed and the capture tried again
AcquireRetries ==
  /\ pc = "capture"
  /\ counter < MaxCycles
  /\ error' = "AcquisitionError"
  /\ pc' = "capture"
  /\ UNCHANGED <<shape, now, counter, fps, start_time, image, rgb_image,
                 img_list, mse, observed, decisions, detected, sink>>

\* line 61: picam2.capture_buffer raises; nothing in run() catches it
AcquireFails ==
  /\ pc = "capture"
  /\ counter < MaxCycles
  /\ error' = "AcquisitionError"
  /\ pc' = "raised"
  /\ UNCHANGED <<shape, now, counter, fps, start_time, image, rgb_image,
                 img_list, mse, observed, decisions, detected, sink>>

\* line 67-72
Convert ==
  /\ pc = "convert"
  /\ rgb_image' = cvtColor(image)
  /\ img_list' = ListAppend(img_list, rgb_image')
  /\ observed' = Append(observed, rgb_image')
  /\ pc' = "gate"
  /\ UNCHANGED <<shape, now, counter, fps, start_time, image, mse, error,
                 decisions, detected, sink>>

\* line 73-75
Gate ==
  /\ pc = "gate"
  /\ IF Len(img_list) > 1
       THEN LET r == get_mse(img_list[1], img_list[2])
            IN IF r.exc # "none"
                 THEN /\ error' = r.exc
                      /\ pc' = "raised"
                      /\ UNCHANGED <<mse, img_list>>
                 ELSE /\ mse' = r.val
                      /\ img_list' = Tail(img_list)
                      /\ pc' = "test"
                      /\ UNCHANGED error
       ELSE /\ pc' = "test"
            /\ UNCHANGED <<mse, img_list, error>>
  /\ UNCHANGED <<shape, now, counter, fps, start_time, image, rgb_image,
                 observed, decisions, detected, sink>>

\* line 79: the detector's answer for a tensor
DetectionResult(tensor) == [detections_of |-> tensor]

\* line 100 with the pair printed twice
EmitTwice(s, result, f) ==
  Append(Append(s, [result |-> result, fps |-> f]), [result |-> result, fps |-> f])

\* line 100: utils.print_data(detection_result, fps)
Emit(s, result, f) == Append(s, [result |-> result, fps |-> f])

\* line 77-100
Body ==
  /\ pc = "test"
  /\ IF mse = Unbound
       THEN \* line 77: mse is read before any assignment
            /\ error' = "UnboundLocalError"
            /\ pc' = "raised"
            /\ UNCHANGED <<now, fps, start_time, decisions, detected, sink>>
     ELSE IF mse.num # 0
       THEN \* line 79: the synchronous detector call
            /\ detected' = Append(detected, TensorImage(rgb_image))
            /\ decisions' = Append(decisions, "PASS")
            /\ \E ok \in BOOLEAN, end_time \in now..MaxTime :
                 IF ~ok
                   THEN /\ error' = "DetectionError"
                        /\ pc' = "raised"
                        /\ now' = end_time
                        /\ UNCHANGED <<fps, start_time, sink>>
                 ELSE IF counter % fps_avg_frame_count # 0
                   THEN \* line 85 is false: fps is kept; line 100
                        /\ now' = end_time
                        /\ sink' = Emit(sink,
                             DetectionResult(TensorImage(rgb_image)), fps)
                        /\ pc' = "capture"
                        /\ UNCHANGED <<fps, start_time, error>>
                 ELSE IF end_time - start_time = 0
                   THEN \* line 87 divides by zero
                        /\ error' = "ZeroDivisionError"
                        /\ pc' = "raised"
                        /\ now' = end_time
                        /\ UNCHANGED <<fps, start_time, sink>>
                 ELSE \* line 86-88, 100
                      \E t2 \in end_time..MaxTime :
                        /\ fps' = Float(fps_avg_frame_count, end_time - start_time)
                        /\ start_time' = t2
                        /\ now' = t2
                        /\ sink' = Emit(sink,
                             DetectionResult(TensorImage(rgb_image)), fps')
                        /\ pc' = "capture"
                        /\ UNCHANGED error
     ELSE \* line 77 is false: the next cycle
          /\ decisions' = Append(decisions, "BLOCK")
          /\ pc' = "capture"
          /\ UNCHANGED <<now, fps, start_time, error, detected, sink>>
  /\ UNCHANGED <<shape, counter, image, rgb_image, img_list, mse, observed>>

Next == Acquire \/ AcquireFails \/ Convert \/ Gate \/ Body

Spec == Init /\ [][Next]_vars

-----------------------------------------------------------------------------
(* run() from line 77 of a cycle whose score is bound *)

\* line 148: the values err/(h*w) can take, by whether err is 0
ScoreSamples(shp) == {Float(0, Size(shp)), Float(1, Size(shp))}

\* line 77, in a cycle that is the last of an averaging window (line 85
\* true) or the one before it, with the state lines 61-75 leave
CycleInit ==
  /\ pc = "test"
  /\ shape = <<1, 2>>
  /\ \E g \in GrayFrames(shape) :
       /\ image = g
       /\ rgb_image = cvtColor(g)
       /\ img_list = <<cvtColor(g)>>
       /\ observed = <<cvtColor(g)>>
  /\ mse \in ScoreSamples(shape)
  /\ counter \in {fps_avg_frame_count - 1, fps_avg_frame_count}
  /\ start_time \in 0..MaxTime
  /\ now \in start_time..MaxTime
  /\ fps \in {Float(0, 1)} \cup {Float(fps_avg_frame_count, e) : e \in 1..MaxTime}
  /\ error = "none"
  /\ decisions = <<>>
  /\ detected = <<>>
  /\ sink = <<>>

CycleSpec == CycleInit /\ [][Next]_vars

-----------------------------------------------------------------------------
(* get_mse as line 74 calls it, on every pair of arrays *)

\* the frames of one row: as captured (2-D) and as converted (3-D)
MseFrames ==
  LET gray == UNION {GrayFrames(<<1, w>>) : w \in 2..MaxW}
  IN gray \cup {cvtColor(g) : g \in gray}

\* img_list holds two arrays, as at line 73 once a second one is appended
MseInit ==
  /\ pc = "gate"
  /\ \E a \in MseFrames, b \in MseFrames :
       /\ img_list = <<a, b>>
       /\ observed = <<a, b>>
       /\ rgb_image = b
       /\ shape = <<b.shape[1], b.shape[2]>>
  /\ image = Unbound
  /\ now = 0
  /\ start_time = 0
  /\ counter = 2
  /\ fps = Float(0, 1)
  /\ mse = Unbound
  /\ error = "none"
  /\ decisions = <<>>
  /\ detected = <<>>
  /\ sink = <<>>

MseNext == Gate

MseSpec == MseInit /\ [][MseNext]_vars

-----------------------------------------------------------------------------
(* Properties *)

\* run() is between two cycles, or has ended
CycleEnd == pc \in {"capture", "raised"}

\* the cycles that passed the gate and reached the detector
Ticks == Len(detected)

\* the two frames lines 73-75 compare have the same geometry
SameGeometry == Len(observed) = 2 /\ observed[1].shape = observed[2].shape

RECURSIVE SquaredDiffs(_, _, _)
SquaredDiffs(p, q, n) ==
  IF n = 0 THEN 0
  ELSE (p[n] - q[n]) * (p[n] - q[n]) + SquaredDiffs(p, q, n - 1)

\* the sum over all elements of (a - b)^2, in the integers
ExactSquaredError(a, b) == SquaredDiffs(a.px, b.px, Size(a.shape))

\* C1: the first cycle computes no score, is treated as BLOCK (no detection,
\* no emission, no error) and the loop goes on to acquire the second frame.
C1_FirstCycleBlocks ==
  (counter = 1 /\ CycleEnd) =>
    /\ error = "none"
    /\ pc = "capture"
    /\ decisions = <<"BLOCK">>
    /\ detected = <<>>
    /\ sink = <<>>

\* C2: observing a frame and then the same frame again yields the score 0.
C2_IdenticalFramesScoreZero ==
  (pc # "gate" /\ Len(observed) = 2 /\ observed[1] = observed[2]) =>
    /\ error = "none"
    /\ mse # Unbound
    /\ mse.num = 0

\* C3: observing two frames of the same geometry that differ in a pixel
\* yields a score above 0.
C3_DifferentFramesScorePositive ==
  (pc # "gate" /\ SameGeometry /\ observed[1] # observed[2]) =>
    /\ error = "none"
    /\ mse # Unbound
    /\ mse.num > 0

\* C4: the score of (A, B) is the score of (B, A).
C4_ScoreSymmetric ==
  (pc # "gate" /\ SameGeometry) =>
    LET swapped == get_mse(observed[2], observed[1])
    IN /\ error = "none"
       /\ swapped.exc = "none"
       /\ mse = swapped.val

C6_DecisionsFollowChange ==
  (CycleEnd /\ error # "AcquisitionError") =>
    /\ Len(decisions) = Len(observed)
    /\ \A n \in 1..Len(decisions) :
         decisions[n] =
           IF n >= 2 /\ observed[n] # observed[n - 1] THEN "PASS" ELSE "BLOCK"
    /\ Ticks = Cardinality({n \in 2..Len(observed) : observed[n] # observed[n - 1]})

\* C7: the averaging window counts ticks: at the end of every cycle the
\* counter line 85 tests is at a multiple of W exactly when the number of
\* ticks is, and fewer than W ticks leave fps at its initial value.
C7_WindowCountsTicks ==
  CycleEnd =>
    /\ (counter % fps_avg_frame_count = 0) <=> (Ticks % fps_avg_frame_count = 0)
    /\ Ticks < fps_avg_frame_count => fps = Float(0, 1)

\* C8: a cycle that does not pass the gate leaves counter and fps as they
\* were: while no cycle has passed, they are as initialised.
C8_BlockedCycleKeepsFpsCounter ==
  (CycleEnd /\ Ticks = 0) => (counter = 0 /\ fps = Float(0, 1))

\* C9: observing a frame whose geometry differs from the previous frame's
\* fails and leaves the history as it was before the observation.
C9_MismatchKeepsHistory ==
  (pc # "gate" /\ Len(observed) = 2 /\ observed[1].shape # observed[2].shape) =>
    /\ error # "none"
    /\ img_list = <<observed[1]>>

\* C10: for frames of the same geometry get_mse returns the exact sum of the
\* squared differences divided by h*w.
C10_ExactMeanSquaredError ==
  (pc # "gate" /\ SameGeometry) =>
    /\ error = "none"
    /\ mse # Unbound
    /\ mse.num * (observed[1].shape[1] * observed[1].shape[2])
         = ExactSquaredError(observed[1], observed[2]) * mse.den

\* the cycles whose test of line 77 was true
PassCycles == {n \in 1..Len(decisions) : decisions[n] = "PASS"}

\* the exceptions of the two blocking calls, lines 61 and 79
Fatal == {"AcquisitionError", "DetectionError"}

\* C11: the detector is invoked once in every PASS cycle and in no other,
\* and every PASS cycle that completes has emitted exactly one pair: the
\* invocations, the PASS cycles and the emissions of completed cycles are
\* equal in number.
C11_DetectAndEmitOncePerPass ==
  /\ Len(detected) = Cardinality(PassCycles)
  /\ Len(sink) =
       IF pc = "raised" /\ error \in {"DetectionError", "ZeroDivisionError"}
         THEN Len(detected) - 1
         ELSE Len(detected)

\* C11: a PASS cycle has completed
C11_Witness == pc = "capture" /\ decisions = <<"PASS">> /\ Len(sink) = 1

C14_ZeroElapsedGuarded == ~(pc = "raised" /\ error = "ZeroDivisionError")

\* C15: a failure of the capture or of the detector call ends the loop: the
\* failing step emits nothing, and no step follows it.
C15_FailureIsFatal ==
  [][/\ error \notin Fatal
     /\ error' \in Fatal => (pc' = "raised" /\ sink' = sink)
    ]_vars

\* C15: the detector call has failed in a PASS cycle
C15_Witness == pc = "raised" /\ error = "DetectionError" /\ Len(detected) = 1

\* C16: in a cycle n >= 2 lines 73-75 compute a score and leave in the
\* history exactly the frame acquired in that cycle.
C16_HistoryHoldsCurrentFrame ==
  (Len(observed) >= 2 /\ pc \in {"test", "raised"}) =>
    /\ error = "none"
    /\ mse # Unbound
    /\ img_list = <<observed[Len(observed)]>>

\* C17: for two converted frames of shape (h, w, 3) and the same geometry
\* the gate raises no error.
C17_GateAcceptsColourFrames ==
  (pc # "gate" /\ SameGeometry /\ Len(observed[1].shape) = 3) => error = "none"

=============================================================================
